---- MODULE Spec2Model ----
(***************************************************************************)
(* Live synchronisation layer of the ALPR dashboard client.                *)
(*                                                                         *)
(*   Spec      the WebSocketService singleton (services/websocket.ts), the *)
(*             WebSocketProvider that connects it, the backend's frames    *)
(*             and the subscriber registry.                                *)
(*   SpecList  the reconciled lists of RecentEvents, the Events page and   *)
(*             the Sessions page: REST snapshots racing push envelopes.    *)
(***************************************************************************)
EXTENDS Integers, Sequences, FiniteSets, TLC

\* ------------------------------------------------------------------ bounds
MaxSockets == 2      \* WebSocket objects constructed in one run
MaxFrames  == 2      \* frames the backend broadcasts in one run
NSubs      == 2      \* distinct subscriber callbacks
MaxHandleCalls == 2  \* calls of one unsubscribe handle
MaxRegs    == 2      \* subscribe() calls with one callback function
MaxSends   == 2      \* messages send() transmits in one run

VARIABLES
  \* ---- WebSocketService (Spec)
  sockState,             \* readyState of every WebSocket constructed so far
  nSock,                 \* number of WebSocket objects constructed
  ws,                    \* this.ws: index of the current socket, 0 for null
  reconnectTimer,        \* this.reconnectTimer is non-null
  nTimers,               \* timers created by setTimeout and neither fired nor cleared
  isIntentionallyClosed, \* this.isIntentionallyClosed
  callbacks,             \* this.callbacks: a Set, kept in insertion order
  providerMounted,       \* the WebSocketProvider effect is mounted
  ctorThrows,            \* new WebSocket(WS_URL) raises (a URL the browser refuses)
  intent,                \* the caller's last request: "online" after connect(), "offline" after disconnect()
  resumed,               \* connect() has been called after a disconnect()
  nSent,                 \* frames the backend has broadcast
  nDropped,              \* frames ws.onmessage could not parse
  unsubCalls,            \* per subscriber: calls of its unsubscribe handle since subscribe()
  handles,               \* per subscriber: handles subscribe() returned for it that were not called yet
  lastPass,              \* the dispatch pass of the last step, when a callback called handles in it
  due,                   \* per subscriber: well-formed frames sent since it registered
  seen,                  \* per subscriber: frames its callback was invoked with
  \* ---- reconciled lists (SpecList)
  feed,                  \* which view owns the list: "recent", "events" or "sessions"
  view,                  \* the entries on display (the React state of the view)
  db,                    \* the backend's entities, newest first
  nNew,                  \* entities the backend has created since the mount
  inflight,              \* snapshot fetches requested and not applied yet
  pushq,                 \* push envelopes on their way to the subscriber, in order
  pageSize,              \* pagination.pageSize of the Events and Sessions pages
  lastPush,              \* the last envelope delivered for each identity
  lastOp,                \* the last step that wrote the list, and with what
  loading,               \* the loading state of the view that owns the list
  notice,                \* the last toast the view raised
  \* ---- views (SpecViews)
  mountedViews,          \* the subscribing views React has mounted
  \* ---- send(message)
  nTx,                   \* messages handed to ws.send of the current socket
  lastSend,              \* how the last send(message) ended
  \* ---- WebSocketProvider
  shown,                 \* the isConnected state the provider exposes to the UI
  \* ---- usePagination
  currentPage,           \* the currentPage state of the hook
  totalItems,            \* the totalItems prop of the hook
  rendered,              \* what the functions of the last render closed over
  \* ---- Dashboard barrier control
  barrierOpen,           \* per barrier: isEntryBarrierOpen / isExitBarrierOpen
  closeTimers,           \* per barrier: auto-close timers pending, oldest first to fire
  openReqs,              \* per barrier: open requests the backend has not answered
  actionLoading          \* the actionLoading state: "none", "entry" or "exit"

connVars == <<sockState, nSock, ws, reconnectTimer, nTimers, isIntentionallyClosed,
              callbacks, providerMounted, ctorThrows, intent, resumed, nSent, nDropped,
              unsubCalls, handles, lastPass, due, seen>>
listVars == <<feed, view, db, nNew, inflight, pushq, pageSize, lastPush, lastOp,
              loading, notice>>
viewVars == <<mountedViews>>
sendVars == <<nTx, lastSend>>
pagVars == <<currentPage, totalItems, rendered>>
barrierVars == <<barrierOpen, closeTimers, openReqs, actionLoading>>
vars == <<connVars, listVars, viewVars, sendVars, shown, pagVars, barrierVars>>

Sockets     == 1..MaxSockets
Subscribers == 1..NSubs

\* ------------------------------------------------------------ helpers
\* no callback called a handle in the last step
NoPass == [a |-> 0, T |-> {}, throwers |-> {}, before |-> <<>>]

Range(s) == {s[i] : i \in 1..Len(s)}

\* a - b, or 0 when b exceeds a
Monus(a, b) == IF b > a THEN 0 ELSE a - b

\* Set.prototype.add on an insertion-ordered Set
SetAdd(s, x) == IF x \in Range(s) THEN s ELSE Append(s, x)

\* Set.prototype.delete
SetDelete(s, x) == SelectSeq(s, LAMBDA y : y # x)

\* WebSocket readyState values
ReadyStates == {"CONNECTING", "OPEN", "CLOSING", "CLOSED"}

\* isConnected(): this.ws?.readyState === WebSocket.OPEN
isConnected == ws # 0 /\ sockState[ws] = "OPEN"

\* ------------------------------------------------- WebSocketService
\* reconnect(): arm the timer unless one is pending or the close was intended
reconnect(timer, intentional) ==
  IF timer \/ intentional THEN timer ELSE TRUE

\* reconnect() without its guard on this.reconnectTimer: a timer is created
\* although one is pending
setTimeoutCalls_Unguarded(timer, intentional) ==
  IF intentional THEN 0 ELSE 1

\* reconnect(): the number of setTimeout calls it makes
setTimeoutCalls(timer, intentional) ==
  IF timer \/ intentional THEN 0 ELSE 1

\* clearTimeout(this.reconnectTimer) under if (this.reconnectTimer)
clearTimeout(timer, n) == IF timer THEN n - 1 ELSE n

\* connect()'s guard: this.ws?.readyState === WebSocket.OPEN returns early
connectReturnsEarly == ws # 0 /\ sockState[ws] = "OPEN"

\* connect().  When new WebSocket(WS_URL) raises (ctorThrows), the catch block
\* calls reconnect().  timer is the value of
\* this.reconnectTimer on entry (the timer callback clears it first), n the
\* number of pending timers on entry.
connect(timer, n) ==
  IF connectReturnsEarly
  THEN /\ reconnectTimer' = timer
       /\ nTimers' = n
       /\ UNCHANGED <<sockState, nSock, ws>>
  ELSE IF ctorThrows
  THEN /\ reconnectTimer' = reconnect(timer, isIntentionallyClosed)
       /\ nTimers' = n + setTimeoutCalls(timer, isIntentionallyClosed)
       /\ UNCHANGED <<sockState, nSock, ws>>
  ELSE /\ nSock < MaxSockets
       /\ nSock' = nSock + 1
       /\ sockState' = [sockState EXCEPT ![nSock + 1] = "CONNECTING"]
       /\ ws' = nSock + 1
       /\ reconnectTimer' = timer
       /\ nTimers' = n

\* websocketService.connect() called through the public API
Connect ==
  /\ connect(reconnectTimer, nTimers)
  /\ intent' = "online" /\ resumed' = (resumed \/ intent = "offline")
  /\ UNCHANGED <<isIntentionallyClosed, callbacks, providerMounted, ctorThrows, unsubCalls, handles, nDropped, nSent, due, seen>>
  /\ lastPass' = NoPass
  /\ UNCHANGED <<listVars, viewVars, sendVars, shown, pagVars, barrierVars>>

\* the setTimeout callback of reconnect()
TimerFire ==
  /\ nTimers > 0
  /\ connect(FALSE, nTimers - 1)
  /\ UNCHANGED <<isIntentionallyClosed, callbacks, providerMounted, ctorThrows, unsubCalls, handles, nDropped, intent, resumed, nSent, due, seen>>
  /\ lastPass' = NoPass
  /\ UNCHANGED <<listVars, viewVars, sendVars, shown, pagVars, barrierVars>>

\* ws.onopen of socket k
SockOpen(k) ==
  /\ k <= nSock /\ sockState[k] = "CONNECTING"
  /\ sockState' = [sockState EXCEPT ![k] = "OPEN"]
  /\ isIntentionallyClosed' = FALSE
  /\ reconnectTimer' = FALSE
  /\ nTimers' = clearTimeout(reconnectTimer, nTimers)
  /\ UNCHANGED <<nSock, ws, callbacks, providerMounted, ctorThrows, unsubCalls, handles, nDropped, intent, resumed, nSent, due, seen>>
  /\ lastPass' = NoPass
  /\ UNCHANGED <<listVars, viewVars, sendVars, shown, pagVars, barrierVars>>

\* socket k fails or is closed: ws.onerror (logs only), then ws.onclose
SockClose(k) ==
  /\ k <= nSock /\ sockState[k] \in {"CONNECTING", "OPEN", "CLOSING"}
  /\ sockState' = [sockState EXCEPT ![k] = "CLOSED"]
  /\ ws' = 0
  /\ reconnectTimer' = IF ~isIntentionallyClosed
                       THEN reconnect(reconnectTimer, isIntentionallyClosed)
                       ELSE reconnectTimer
  /\ nTimers' = IF ~isIntentionallyClosed
                THEN nTimers + setTimeoutCalls(reconnectTimer, isIntentionallyClosed)
                ELSE nTimers
  /\ UNCHANGED <<nSock, isIntentionallyClosed, callbacks, providerMounted, ctorThrows, unsubCalls, handles, nDropped, intent, resumed, nSent, due, seen>>
  /\ lastPass' = NoPass
  /\ UNCHANGED <<listVars, viewVars, sendVars, shown, pagVars, barrierVars>>

\* disconnect()
Disconnect ==
  /\ isIntentionallyClosed' = TRUE
  /\ reconnectTimer' = FALSE
  /\ nTimers' = clearTimeout(reconnectTimer, nTimers)
  /\ IF ws # 0
     THEN /\ sockState' = [sockState EXCEPT ![ws] =
                             IF @ \in {"CONNECTING", "OPEN"} THEN "CLOSING" ELSE @]
          /\ ws' = 0
     ELSE UNCHANGED <<sockState, ws>>
  /\ intent' = "offline" /\ resumed' = FALSE
  /\ UNCHANGED <<nSock, callbacks, providerMounted, ctorThrows, unsubCalls, handles, nDropped, nSent, due, seen>>
  /\ lastPass' = NoPass
  /\ UNCHANGED <<listVars, viewVars, sendVars, shown, pagVars, barrierVars>>

\* subscribe(callback)
Subscribe(s) ==
  /\ s \notin Range(callbacks)
  /\ callbacks' = SetAdd(callbacks, s)
  /\ unsubCalls' = [unsubCalls EXCEPT ![s] = 0]
  /\ handles' = [handles EXCEPT ![s] = 1]
  /\ due' = [due EXCEPT ![s] = <<>>]
  /\ seen' = [seen EXCEPT ![s] = <<>>]
  /\ UNCHANGED <<sockState, nSock, ws, reconnectTimer, nTimers, isIntentionallyClosed,
                 providerMounted, ctorThrows, intent, resumed, nSent, nDropped>>
  /\ lastPass' = NoPass
  /\ UNCHANGED <<listVars, viewVars, sendVars, shown, pagVars, barrierVars>>

\* subscribe(callback) with a callback function that is registered already:
\* Set.prototype.add keeps the one entry, and one more handle is returned
Resubscribe(s) ==
  /\ s \in Range(callbacks)
  /\ handles[s] < MaxRegs
  /\ callbacks' = SetAdd(callbacks, s)
  /\ handles' = [handles EXCEPT ![s] = @ + 1]
  /\ UNCHANGED <<sockState, nSock, ws, reconnectTimer, nTimers, isIntentionallyClosed,
                 providerMounted, ctorThrows, intent, resumed, nSent, nDropped,
                 unsubCalls, due, seen>>
  /\ lastPass' = NoPass
  /\ UNCHANGED <<listVars, viewVars, sendVars, shown, pagVars, barrierVars>>

\* the handle returned by subscribe(callback), called outside a dispatch
\* pass; callbacks.delete on a callback that is gone changes nothing
Unsubscribe(s) ==
  /\ unsubCalls[s] < MaxHandleCalls
  /\ callbacks' = SetDelete(callbacks, s)
  /\ unsubCalls' = [unsubCalls EXCEPT ![s] = @ + 1]
  /\ handles' = [handles EXCEPT ![s] = Monus(@, 1)]
  /\ due' = [due EXCEPT ![s] = <<>>]
  /\ seen' = [seen EXCEPT ![s] = <<>>]
  /\ UNCHANGED <<sockState, nSock, ws, reconnectTimer, nTimers, isIntentionallyClosed,
                 providerMounted, ctorThrows, intent, resumed, nSent, nDropped>>
  /\ lastPass' = NoPass
  /\ UNCHANGED <<listVars, viewVars, sendVars, shown, pagVars, barrierVars>>

\* the handles of T called from inside a callback: callbacks.delete for each
unsubscribeAll(st, T) ==
  [cbs   |-> SelectSeq(st.cbs, LAMBDA y : y \notin T),
   seen  |-> [s \in Subscribers |-> IF s \in T THEN <<>> ELSE st.seen[s]],
   calls |-> [s \in Subscribers |-> IF s \in T THEN st.calls[s] + 1 ELSE st.calls[s]]]

\* forEach over a copy of the entries taken as the pass begins
\* ([...this.callbacks].forEach): deleted callbacks are still invoked
RECURSIVE forEach_Snapshot(_, _, _, _, _, _)
forEach_Snapshot(order, st, n, throwers, a, T) ==
  IF order = <<>> THEN st
  ELSE LET cb == Head(order)
           st1 == [st EXCEPT !.seen[cb] = Append(@, n)]
       IN IF cb \in throwers THEN st1
          ELSE IF cb = a
          THEN forEach_Snapshot(Tail(order), unsubscribeAll(st1, T), n, throwers, a, T)
          ELSE forEach_Snapshot(Tail(order), st1, n, throwers, a, T)

\* callbacks kept in an array walked by index, delete by splice: after a
\* deletion at or before the index the next entry is skipped
RECURSIVE walkSpliced(_, _, _, _, _, _)
walkSpliced(i, st, n, throwers, a, T) ==
  IF i > Len(st.cbs) THEN st
  ELSE LET cb == st.cbs[i]
           st1 == [st EXCEPT !.seen[cb] = Append(@, n)]
       IN IF cb \in throwers THEN st1
          ELSE IF cb = a
          THEN walkSpliced(i + 1, unsubscribeAll(st1, T), n, throwers, a, T)
          ELSE walkSpliced(i + 1, st1, n, throwers, a, T)

forEach_Spliced(order, st, n, throwers, a, T) ==
  walkSpliced(1, st, n, throwers, a, T)

\* this.callbacks.forEach((callback) => callback(message)) inside the one try
\* block of ws.onmessage, for frame n.  order is what is left of the Set's
\* entry list as the pass began; an entry deleted before the pass reaches it
\* is not visited.  A callback in throwers raises: the exception leaves
\* forEach and the rest are skipped.  Callback a calls the handles of T.
RECURSIVE forEach(_, _, _, _, _, _)
forEach(order, st, n, throwers, a, T) ==
  IF order = <<>> THEN st
  ELSE LET cb == Head(order)
           st1 == [st EXCEPT !.seen[cb] = Append(@, n)]
       IN IF cb \notin Range(st.cbs)
          THEN forEach(Tail(order), st, n, throwers, a, T)
          ELSE IF cb \in throwers THEN st1
          ELSE IF cb = a
          THEN forEach(Tail(order), unsubscribeAll(st1, T), n, throwers, a, T)
          ELSE forEach(Tail(order), st1, n, throwers, a, T)

\* ws.onmessage of one socket for frame n: JSON.parse raises on a malformed
\* frame and nothing is dispatched
onmessage(st, n, wellFormed, throwers, a, T) ==
  IF ~wellFormed THEN st
  ELSE forEach(st.cbs, st, n, throwers, a, T)

\* the sockets a browser delivers a broadcast to: those that are OPEN
OpenSockets == {k \in 1..nSock : sockState[k] = "OPEN"}

RECURSIVE onmessageAll(_, _, _, _, _, _, _)
onmessageAll(st, socks, n, wellFormed, throwers, a, T) ==
  IF socks = {} THEN st
  ELSE LET k == CHOOSE x \in socks : \A y \in socks : x <= y
       IN onmessageAll(onmessage(st, n, wellFormed, throwers, a, T),
                       socks \ {k}, n, wellFormed, throwers, a, T)

\* the backend broadcasts one frame to every connection it holds
\* (manager.broadcast); each OPEN socket of this client runs ws.onmessage.
\* throwers: the callbacks that raise on this frame; a, T: callback a calls
\* the unsubscribe handles of T while it handles the frame (a = 0: none does)
Frame(wellFormed, throwers, a, T) ==
  /\ nSent < MaxFrames
  /\ OpenSockets # {}
  /\ throwers \subseteq Range(callbacks) /\ T \subseteq Range(callbacks)
  /\ a = 0 <=> T = {}
  /\ a # 0 => a \in Range(callbacks) \ throwers
  /\ ~wellFormed => throwers = {} /\ a = 0
  /\ \E st \in {onmessageAll([cbs |-> callbacks, seen |-> seen, calls |-> unsubCalls],
                              OpenSockets, nSent + 1, wellFormed, throwers, a, T)} :
        /\ callbacks' = st.cbs
        /\ seen' = st.seen
        /\ unsubCalls' = [s \in Subscribers |->
                            IF st.calls[s] > MaxHandleCalls THEN MaxHandleCalls
                            ELSE st.calls[s]]
        /\ handles' = [s \in Subscribers |->
                         Monus(handles[s], st.calls[s] - unsubCalls[s])]
        /\ due' = [s \in Subscribers |->
                     IF s \notin Range(st.cbs) THEN <<>>
                     ELSE IF wellFormed THEN Append(due[s], nSent + 1) ELSE due[s]]
  /\ nSent' = nSent + 1
  /\ nDropped' = IF wellFormed THEN nDropped ELSE nDropped + 1
  /\ UNCHANGED <<sockState, nSock, ws, reconnectTimer, nTimers, isIntentionallyClosed,
                 providerMounted, ctorThrows, intent, resumed>>
  /\ lastPass' = IF wellFormed /\ a # 0
                 THEN [a |-> a, T |-> T, throwers |-> throwers, before |-> callbacks]
                 ELSE NoPass
  /\ UNCHANGED <<listVars, viewVars, sendVars, shown, pagVars, barrierVars>>

FrameArrives ==
  \/ Frame(FALSE, {}, 0, {})
  \/ \E throwers \in SUBSET Range(callbacks) :
       \/ Frame(TRUE, throwers, 0, {})
       \/ \E a \in Range(callbacks) \ throwers, T \in (SUBSET Range(callbacks)) \ {{}} :
            Frame(TRUE, throwers, a, T)

\* send() without the readyState test (if (this.ws) this.ws.send(...)):
\* WebSocket.send raises InvalidStateError while the socket is CONNECTING and
\* discards the data once it is CLOSING or CLOSED
send_NoStateCheck(w, st) ==
  IF w = 0 THEN "logged"
  ELSE CASE st[w] = "OPEN"       -> "sent"
         [] st[w] = "CONNECTING" -> "raised"
         [] OTHER                -> "discarded"

\* send(message): this.ws.send(JSON.stringify(message)) when
\* this.ws?.readyState === WebSocket.OPEN, console.error otherwise
send(w, st) ==
  IF w # 0 /\ st[w] = "OPEN" THEN "sent" ELSE "logged"

\* websocketService.send(message) called through the public API
Send ==
  /\ nTx < MaxSends
  /\ lastSend' = send(ws, sockState)
  /\ nTx' = IF lastSend' = "sent" THEN nTx + 1 ELSE nTx
  /\ UNCHANGED <<connVars, listVars, viewVars, shown, pagVars, barrierVars>>

SendIdle == nTx = 0 /\ lastSend = "none"

\* -------------------------------------------------- WebSocketProvider
\* the effect: if (!websocketService.isConnected()) websocketService.connect()
ProviderMount ==
  /\ ~providerMounted
  /\ providerMounted' = TRUE
  /\ IF ~isConnected
     THEN connect(reconnectTimer, nTimers) /\ intent' = "online" /\ resumed' = (resumed \/ intent = "offline")
     ELSE UNCHANGED <<sockState, nSock, ws, reconnectTimer, nTimers, intent, resumed>>
  /\ UNCHANGED <<isIntentionallyClosed, callbacks, ctorThrows, unsubCalls, handles, nDropped, nSent, due, seen>>
  /\ lastPass' = NoPass
  /\ shown' = FALSE
  /\ UNCHANGED <<listVars, viewVars, sendVars, pagVars, barrierVars>>

\* the effect's cleanup: the service is left connected
ProviderUnmount ==
  /\ providerMounted
  /\ providerMounted' = FALSE
  /\ UNCHANGED <<sockState, nSock, ws, reconnectTimer, nTimers, isIntentionallyClosed,
                 callbacks, ctorThrows, unsubCalls, handles, nDropped, intent, resumed, nSent, due, seen>>
  /\ lastPass' = NoPass
  /\ UNCHANGED <<listVars, viewVars, sendVars, shown, pagVars, barrierVars>>

\* a checkConnection that never writes the state
checkConnection_NoWrite(mounted, cur, conn) == cur

\* the body of the setInterval callback:
\* if (mounted) setIsConnected(websocketService.isConnected())
checkConnection(mounted, cur, conn) == IF mounted THEN conn ELSE cur

\* the checkConnection interval fires; the cleanup clears it, so it fires only
\* while the effect is mounted
Poll ==
  /\ providerMounted
  /\ shown' = checkConnection(providerMounted, shown, isConnected)
  /\ UNCHANGED <<connVars, listVars, viewVars, sendVars, pagVars, barrierVars>>

\* useState(false)
ProviderIdle == shown = FALSE

ConnInit ==
  /\ sockState = [k \in Sockets |-> "NONE"]
  /\ nSock = 0
  /\ ws = 0
  /\ reconnectTimer = FALSE
  /\ nTimers = 0
  /\ isIntentionallyClosed = FALSE
  /\ callbacks = <<>>
  /\ providerMounted = FALSE
  /\ ctorThrows \in BOOLEAN
  /\ intent = "none"
  /\ resumed = FALSE
  /\ nSent = 0
  /\ nDropped = 0
  /\ unsubCalls = [s \in Subscribers |-> 0]
  /\ handles = [s \in Subscribers |-> 0]
  /\ lastPass = NoPass
  /\ due = [s \in Subscribers |-> <<>>]
  /\ seen = [s \in Subscribers |-> <<>>]

\* ------------------------------------------------- reconciled lists
MaxOps      == 2     \* entities the backend creates or updates after the mount
MaxInflight == 1     \* snapshot fetches in flight at once
PageSize    == 2     \* pagination.pageSize (scaled down from 10, 20, 50 or 100)

RecentLimit == 6     \* getEvents({ limit: 6, offset: 0 })
RecentKeep  == 5     \* prevEvents.slice(0, 5)
ActiveLimit == 5     \* getActiveSessions({ limit: 5 })

Feeds           == {"recent", "events", "sessions"}
Ids             == 1..(RecentLimit + MaxOps)

\* an entity: identity, ordering key (event timestamp / entry time), and the
\* revision of its other fields
NoEnt == [id |-> 0, ts |-> 0, ver |-> 0]

Min(a, b) == IF a < b THEN a ELSE b

\* Array.prototype.slice(0, to) for to >= 0
slice(arr, to) == SubSeq(arr, 1, Min(to, Len(arr)))

IdsOf(arr) == {arr[i].id : i \in 1..Len(arr)}

\* recentOnEvent keeping one entry too many: prevEvents.slice(0, 6)
recentOnEvent_KeepsSix(prev, e) == <<e>> \o slice(prev, RecentKeep + 1)

\* RecentEvents: setEvents((prevEvents) => [message.data, ...prevEvents.slice(0, 5)])
recentOnEvent(prev, e) == <<e>> \o slice(prev, RecentKeep)

\* Events.handleNewEvent: setEvents(prev => [event, ...prev.slice(0, pageSize - 1)])
handleNewEvent(prev, e, ps) == <<e>> \o slice(prev, ps - 1)

\* prev.findIndex(s => s.id === session.id), 1-based, 0 when absent
findIndex(prev, id) ==
  IF id \in IdsOf(prev)
  THEN CHOOSE i \in 1..Len(prev) :
         prev[i].id = id /\ \A j \in 1..(i - 1) : prev[j].id # id
  ELSE 0

\* Sessions.handleSessionUpdate
handleSessionUpdate(prev, s, ps) ==
  LET index == findIndex(prev, s.id)
  IN IF index >= 1
     THEN [prev EXCEPT ![index] = s]
     ELSE <<s>> \o slice(prev, ps - 1)

\* the subscriber of the view that owns the list
onPush(prev, e) ==
  CASE feed = "recent"   -> recentOnEvent(prev, e)
    [] feed = "events"   -> handleNewEvent(prev, e, pageSize)
    [] feed = "sessions" -> handleSessionUpdate(prev, e, pageSize)
    [] feed = "active"   -> prev

\* the view that owns the list
ListOwner ==
  CASE feed = "recent"   -> "RecentEvents"
    [] feed = "events"   -> "Events"
    [] feed = "sessions" -> "Sessions"
    [] feed = "active"   -> "ActiveSessions"

\* capacity N of the list
Cap ==
  CASE feed = "recent" -> RecentLimit
    [] feed = "active" -> ActiveLimit
    [] OTHER           -> pageSize

\* the page the REST collaborator returns: the first N entities, newest first
Snapshot == slice(db, Cap)

Pending == <<NoEnt>>   \* a request the backend has not answered yet

\* fetchEvents() / fetchSessions() up to the await: the request leaves
FetchStart ==
  /\ loading' = TRUE /\ UNCHANGED notice
  /\ ListOwner \in mountedViews
  /\ feed \in {"events", "sessions"}
  /\ Len(inflight) < MaxInflight
  /\ inflight' = Append(inflight, [snap |-> Pending, got |-> {}, stale |-> FALSE])
  /\ UNCHANGED lastOp
  /\ UNCHANGED <<feed, view, db, nNew, pushq, pageSize, lastPush>>
  /\ UNCHANGED <<connVars, viewVars, sendVars, shown, pagVars, barrierVars>>

\* the backend answers request r with the page as it is now
ServerRespond(r) ==
  /\ UNCHANGED <<loading, notice>>
  /\ r \in 1..Len(inflight) /\ inflight[r].snap = Pending
  /\ inflight' = [inflight EXCEPT ![r].snap = Snapshot]
  /\ UNCHANGED lastOp
  /\ UNCHANGED <<feed, view, db, nNew, pushq, pageSize, lastPush>>
  /\ UNCHANGED <<connVars, viewVars, sendVars, shown, pagVars, barrierVars>>

RemoveAt(arr, r) == SubSeq(arr, 1, r - 1) \o SubSeq(arr, r + 1, Len(arr))

\* the continuation after the await: setEvents(response.items) /
\* setSessions(response.items)
FetchApply(r) ==
  /\ loading' = FALSE /\ UNCHANGED notice
  /\ r \in 1..Len(inflight) /\ inflight[r].snap # Pending
  /\ view' = inflight[r].snap
  /\ inflight' = RemoveAt([q \in 1..Len(inflight) |->
                             [inflight[q] EXCEPT !.stale = @ \/ q < r]], r)
  /\ lastOp' = [kind |-> "fetch", env |-> NoEnt, got |-> inflight[r].got,
                stale |-> inflight[r].stale]
  /\ UNCHANGED <<feed, db, nNew, pushq, pageSize, lastPush>>
  /\ UNCHANGED <<connVars, viewVars, sendVars, shown, pagVars, barrierVars>>

\* the catch block of fetchEvents / fetchSessions: console.error, and on the
\* Events and Sessions pages toast.error('Failed to load ...'); RecentEvents
\* raises no toast and stores nothing
onFetchError(n) == IF feed \in {"recent", "active"} THEN n ELSE "error"

\* the catch and finally blocks: the request failed, the list is left as it
\* is, setLoading(false)
FetchFail(r) ==
  /\ loading' = FALSE /\ notice' = onFetchError(notice)
  /\ r \in 1..Len(inflight) /\ inflight[r].snap = Pending
  /\ inflight' = RemoveAt(inflight, r)
  /\ UNCHANGED lastOp
  /\ UNCHANGED <<feed, view, db, nNew, pushq, pageSize, lastPush>>
  /\ UNCHANGED <<connVars, viewVars, sendVars, shown, pagVars, barrierVars>>

RECURSIVE Updates(_)
Updates(arr) == IF arr = <<>> THEN 0 ELSE Head(arr).ver + Updates(Tail(arr))

MaxTs == IF db = <<>> THEN 0 ELSE db[1].ts

\* the backend records a new entity, later than every entity it holds, and
\* broadcasts its envelope
ServerEvent ==
  /\ UNCHANGED <<loading, notice>>
  /\ nNew + Updates(db) < MaxOps
  /\ LET e == [id |-> Len(db) + 1, ts |-> MaxTs + 1, ver |-> 0]
     IN /\ db' = <<e>> \o db
        /\ pushq' = Append(pushq, e)
  /\ nNew' = nNew + 1
  /\ UNCHANGED lastOp
  /\ UNCHANGED <<feed, view, inflight, pageSize, lastPush>>
  /\ UNCHANGED <<connVars, viewVars, sendVars, shown, pagVars, barrierVars>>

\* the backend changes the fields of an entity and broadcasts the new envelope
ServerUpdate(i) ==
  /\ UNCHANGED <<loading, notice>>
  /\ i \in 1..Len(db) /\ nNew + Updates(db) < MaxOps
  /\ db' = [db EXCEPT ![i].ver = @ + 1]
  /\ pushq' = Append(pushq, db'[i])
  /\ UNCHANGED lastOp
  /\ UNCHANGED <<feed, view, nNew, inflight, pageSize, lastPush>>
  /\ UNCHANGED <<connVars, viewVars, sendVars, shown, pagVars, barrierVars>>

\* the requests the subscriber starts: ActiveSessions calls fetchSessions()
\* on every 'session' or 'event' envelope, the other views none
onPushFetches ==
  IF feed = "active" THEN <<[snap |-> Pending, got |-> {}, stale |-> FALSE]>> ELSE <<>>

\* what one delivery of envelope e to the subscriber does
deliver(e) ==
  /\ view' = onPush(view, e)
  /\ notice' = IF feed \in {"recent", "active"} THEN notice ELSE "success"
  /\ loading' = (loading \/ feed = "active")
  /\ lastPush' = [lastPush EXCEPT ![e.id] = e]
  /\ inflight' = [r \in 1..Len(inflight) |->
                    [inflight[r] EXCEPT !.got = @ \cup {e.id}]]
                  \o onPushFetches

\* the next envelope reaches the subscriber
DeliverPush ==
  /\ ListOwner \in mountedViews
  /\ pushq # <<>>
  /\ deliver(Head(pushq))
  /\ pushq' = Tail(pushq)
  /\ lastOp' = IF feed = "active" THEN lastOp
                ELSE [kind |-> "push", env |-> Head(pushq), got |-> {}, stale |-> FALSE]
  /\ UNCHANGED <<feed, db, nNew, pageSize>>
  /\ UNCHANGED <<connVars, viewVars, sendVars, shown, pagVars, barrierVars>>

\* the envelope just delivered reaches the subscriber once more (a backend
\* retransmission, or the same broadcast received on a second socket)
Redeliver ==
  /\ ListOwner \in mountedViews
  /\ lastOp.kind \in {"push", "repush"}
  /\ deliver(lastOp.env)
  /\ lastOp' = [kind |-> "repush", env |-> lastOp.env, got |-> {}, stale |-> FALSE]
  /\ UNCHANGED <<feed, db, nNew, pushq, pageSize>>
  /\ UNCHANGED <<connVars, viewVars, sendVars, shown, pagVars, barrierVars>>

\* the view unmounts: the cleanup of its effect unsubscribes; a fetch that is
\* in flight is not cancelled and its continuation still runs
ListUnmount ==
  /\ ListOwner \in mountedViews
  /\ mountedViews' = mountedViews \ {ListOwner}
  /\ UNCHANGED <<listVars, connVars, sendVars, shown, pagVars, barrierVars>>

\* the backend's history when the view mounts, up to a full page: n
\* entities, newest first
RECURSIVE History(_)
History(n) ==
  IF n = 0 THEN <<>> ELSE <<[id |-> n, ts |-> n, ver |-> 0]>> \o History(n - 1)

\* the view has just mounted: its effect has started the first fetch and
\* registered the subscriber
ListMounted(f) ==
  /\ feed = f
  /\ pageSize = PageSize
  /\ view = <<>>
  /\ \E n \in 0..Cap : db = History(n)
  /\ nNew = 0
  /\ inflight = <<[snap |-> Pending, got |-> {}, stale |-> FALSE]>>
  /\ pushq = <<>>
  /\ lastPush = [i \in Ids |-> NoEnt]
  /\ lastOp = [kind |-> "mount", env |-> NoEnt, got |-> {}, stale |-> FALSE]
  /\ loading = TRUE
  /\ notice = "none"

ListInit == \E f \in Feeds : ListMounted(f)

\* ------------------------------------------------------------ views
\* the views whose effect registers a subscriber
Views == {"Dashboard", "RecentEvents", "ActiveSessions", "Events", "Sessions"}

\* the routes of App that matter here; "Other" stands for the pages that do
\* not subscribe
Pages == {"Dashboard", "Events", "Sessions", "Other"}

\* the children Dashboard renders once its stats are loaded
DashboardChildren == {"RecentEvents", "ActiveSessions"}

\* the effect of view v: websocketService.subscribe(callback)
effectSubscribe(cbs, v) == SetAdd(cbs, v)

\* an effect whose cleanup was left out: the callback stays registered
effectCleanup_Forgotten(cbs, v) == cbs

\* the cleanup of the effect of view v: unsubscribe()
effectCleanup(cbs, v) == SetDelete(cbs, v)

\* the cleanups of all the views in S (React runs them when the views unmount)
RECURSIVE cleanupAll(_, _)
cleanupAll(cbs, S) ==
  IF S = {} THEN cbs
  ELSE LET v == CHOOSE x \in S : TRUE
       IN cleanupAll(effectCleanup(cbs, v), S \ {v})

page ==
  IF "Dashboard" \in mountedViews THEN "Dashboard"
  ELSE IF "Events" \in mountedViews THEN "Events"
  ELSE "Other"

\* the router shows page p: the views of the old page unmount, the page
\* mounts and its effect runs.  Dashboard first renders its spinner, without
\* its children.  The effect of Sessions calls websocketService.on, which the
\* service does not have: the TypeError unmounts the whole tree (App has no
\* error boundary), WebSocketProvider included.
Navigate(p) ==
  /\ providerMounted
  /\ p # page
  /\ LET cleared == cleanupAll(callbacks, mountedViews)
     IN CASE p = "Sessions" ->
               /\ mountedViews' = {}
               /\ callbacks' = cleared
               /\ providerMounted' = FALSE
          [] p = "Other" ->
               /\ mountedViews' = {}
               /\ callbacks' = cleared
               /\ UNCHANGED providerMounted
          [] OTHER ->
               /\ mountedViews' = {p}
               /\ callbacks' = effectSubscribe(cleared, p)
               /\ UNCHANGED providerMounted
  /\ lastPass' = NoPass
  /\ UNCHANGED <<sockState, nSock, ws, reconnectTimer, nTimers, isIntentionallyClosed,
                 ctorThrows, intent, resumed, nSent, nDropped, unsubCalls, handles, due, seen>>
  /\ UNCHANGED <<listVars, sendVars, shown, pagVars, barrierVars>>

\* useDashboardStats finishes loading: Dashboard renders its content, its
\* children mount and subscribe, and its own effect (deps [refetch], a new
\* function on every render) is cleaned up and run again
DashboardLoaded ==
  /\ "Dashboard" \in mountedViews
  /\ DashboardChildren \cap mountedViews = {}
  /\ mountedViews' = mountedViews \cup DashboardChildren
  /\ callbacks' = effectSubscribe(
                    effectSubscribe(
                      effectSubscribe(effectCleanup(callbacks, "Dashboard"),
                                      "RecentEvents"),
                      "ActiveSessions"),
                    "Dashboard")
  /\ lastPass' = NoPass
  /\ UNCHANGED <<sockState, nSock, ws, reconnectTimer, nTimers, isIntentionallyClosed,
                 providerMounted, ctorThrows, intent, resumed, nSent, nDropped,
                 unsubCalls, handles, due, seen>>
  /\ UNCHANGED <<listVars, sendVars, shown, pagVars, barrierVars>>

\* a 'stats' or 'event' frame reaches Dashboard's subscriber: refetch() calls
\* setLoading(true) (and then raises on fetchStats); Dashboard renders its
\* spinner again, its children unmount and its effect runs again
DashboardFrame ==
  /\ OpenSockets # {}
  /\ DashboardChildren \subseteq mountedViews
  /\ mountedViews' = mountedViews \ DashboardChildren
  /\ callbacks' = effectSubscribe(
                    effectCleanup(cleanupAll(callbacks, DashboardChildren), "Dashboard"),
                    "Dashboard")
  /\ lastPass' = NoPass
  /\ UNCHANGED <<sockState, nSock, ws, reconnectTimer, nTimers, isIntentionallyClosed,
                 providerMounted, ctorThrows, intent, resumed, nSent, nDropped,
                 unsubCalls, handles, due, seen>>
  /\ UNCHANGED <<listVars, sendVars, shown, pagVars, barrierVars>>

\* the page size of the Events page changes: its subscription effect (deps
\* [pagination.pageSize]) is cleaned up and run again
EventsPageSize ==
  /\ "Events" \in mountedViews
  /\ pageSize' = IF pageSize = PageSize THEN PageSize + 1 ELSE PageSize
  /\ callbacks' = effectSubscribe(effectCleanup(callbacks, "Events"), "Events")
  /\ lastPass' = NoPass
  /\ UNCHANGED <<sockState, nSock, ws, reconnectTimer, nTimers, isIntentionallyClosed,
                 providerMounted, ctorThrows, intent, resumed, nSent, nDropped,
                 unsubCalls, handles, due, seen>>
  /\ UNCHANGED <<feed, view, db, nNew, inflight, pushq, lastPush, lastOp,
                 loading, notice>>
  /\ UNCHANGED <<mountedViews, sendVars, shown, pagVars, barrierVars>>

\* the application is torn down: every view unmounts, then the provider
AppUnmount ==
  /\ providerMounted
  /\ providerMounted' = FALSE
  /\ mountedViews' = {}
  /\ callbacks' = cleanupAll(callbacks, mountedViews)
  /\ lastPass' = NoPass
  /\ UNCHANGED <<sockState, nSock, ws, reconnectTimer, nTimers, isIntentionallyClosed,
                 ctorThrows, intent, resumed, nSent, nDropped, unsubCalls, handles, due, seen>>
  /\ UNCHANGED <<listVars, sendVars, shown, pagVars, barrierVars>>

ViewIdle == mountedViews = {}

\* ------------------------------------------------------ usePagination
MaxItems == 4           \* the largest totalItems the backend reports
MaxCallsPerRender == 2  \* calls of the hook's functions between two renders

Max(a, b) == IF a > b THEN a ELSE b

\* Math.ceil(a / b) for a >= 0, b > 0
ceilDiv(a, b) == (a + b - 1) \div b

\* totalPages: Math.max(1, Math.ceil(totalItems / pageSize))
totalPages(ti, ps) == Max(1, ceilDiv(ti, ps))

\* what one render computes and its functions close over; calls counts the
\* calls made since
closure(cp, ti, ps) ==
  [totalPages    |-> totalPages(ti, ps),
   canGoNext     |-> cp < totalPages(ti, ps),
   canGoPrevious |-> cp > 1,
   calls         |-> 0]

called == [rendered EXCEPT !.calls = @ + 1]

\* the component renders again after its state changed
Render ==
  /\ rendered # closure(currentPage, totalItems, pageSize)
  /\ rendered' = closure(currentPage, totalItems, pageSize)
  /\ UNCHANGED <<currentPage, totalItems>>
  /\ UNCHANGED <<connVars, listVars, viewVars, sendVars, shown, barrierVars>>

\* setPage(page)
setPage(p) ==
  /\ rendered.calls < MaxCallsPerRender
  /\ currentPage' = Max(1, Min(p, rendered.totalPages))
  /\ rendered' = called
  /\ UNCHANGED totalItems
  /\ UNCHANGED <<connVars, listVars, viewVars, sendVars, shown, barrierVars>>

\* nextPage(): the test reads the render's canGoNext, the update is functional
nextPage ==
  /\ rendered.calls < MaxCallsPerRender
  /\ currentPage' = IF rendered.canGoNext THEN currentPage + 1 ELSE currentPage
  /\ rendered' = called
  /\ UNCHANGED totalItems
  /\ UNCHANGED <<connVars, listVars, viewVars, sendVars, shown, barrierVars>>

\* previousPage()
previousPage ==
  /\ rendered.calls < MaxCallsPerRender
  /\ currentPage' = IF rendered.canGoPrevious THEN currentPage - 1 ELSE currentPage
  /\ rendered' = called
  /\ UNCHANGED totalItems
  /\ UNCHANGED <<connVars, listVars, viewVars, sendVars, shown, barrierVars>>

\* goToFirstPage()
goToFirstPage ==
  /\ rendered.calls < MaxCallsPerRender
  /\ currentPage' = 1
  /\ rendered' = called
  /\ UNCHANGED totalItems
  /\ UNCHANGED <<connVars, listVars, viewVars, sendVars, shown, barrierVars>>

\* goToLastPage()
goToLastPage ==
  /\ rendered.calls < MaxCallsPerRender
  /\ currentPage' = rendered.totalPages
  /\ rendered' = called
  /\ UNCHANGED totalItems
  /\ UNCHANGED <<connVars, listVars, viewVars, sendVars, shown, barrierVars>>

\* setPageSize(size), that is handlePageSizeChange
handlePageSizeChange(size) ==
  /\ rendered.calls < MaxCallsPerRender
  /\ pageSize' = size
  /\ currentPage' = 1
  /\ rendered' = called
  /\ UNCHANGED totalItems
  /\ UNCHANGED <<feed, view, db, nNew, inflight, pushq, lastPush, lastOp, loading, notice>>
  /\ UNCHANGED <<connVars, viewVars, sendVars, shown, barrierVars>>

\* the owner renders with another totalItems (setTotalItems(response.total))
TotalItemsChange(n) ==
  /\ n # totalItems
  /\ totalItems' = n
  /\ rendered' = closure(currentPage, n, pageSize)
  /\ UNCHANGED currentPage
  /\ UNCHANGED <<connVars, listVars, viewVars, sendVars, shown, barrierVars>>

\* usePagination({ initialPage: 1, ..., totalItems }) with totalItems = 0
PagInit ==
  /\ currentPage = 1
  /\ totalItems = 0
  /\ rendered = closure(1, 0, PageSize)

\* ----------------------------------------------- Dashboard barrier control
MaxOpens == 2     \* open requests and auto-close timers outstanding per barrier

Barriers == {"entry", "exit"}

\* handleOpenEntryBarrier / handleOpenExitBarrier up to the await; the button
\* of the barrier shows as loading while actionLoading names it
ClickOpen(b) ==
  /\ actionLoading # b
  /\ openReqs[b] + closeTimers[b] < MaxOpens
  /\ actionLoading' = b
  /\ openReqs' = [openReqs EXCEPT ![b] = @ + 1]
  /\ UNCHANGED <<barrierOpen, closeTimers>>
  /\ UNCHANGED <<connVars, listVars, viewVars, sendVars, shown, pagVars>>

\* the request succeeds: setIsEntryBarrierOpen(true), setTimeout(..., 10000),
\* and in the finally block setActionLoading(null)
OpenSucceeds(b) ==
  /\ openReqs[b] > 0
  /\ openReqs' = [openReqs EXCEPT ![b] = @ - 1]
  /\ barrierOpen' = [barrierOpen EXCEPT ![b] = TRUE]
  /\ closeTimers' = [closeTimers EXCEPT ![b] = @ + 1]
  /\ actionLoading' = "none"
  /\ UNCHANGED <<connVars, listVars, viewVars, sendVars, shown, pagVars>>

\* the request fails: the catch block logs, the finally block clears
\* actionLoading
OpenFails(b) ==
  /\ openReqs[b] > 0
  /\ openReqs' = [openReqs EXCEPT ![b] = @ - 1]
  /\ actionLoading' = "none"
  /\ UNCHANGED <<barrierOpen, closeTimers>>
  /\ UNCHANGED <<connVars, listVars, viewVars, sendVars, shown, pagVars>>

\* the oldest auto-close timer of the barrier fires (all have the same delay,
\* so they fire in the order they were created): setIsEntryBarrierOpen(false)
AutoClose(b) ==
  /\ closeTimers[b] > 0
  /\ closeTimers' = [closeTimers EXCEPT ![b] = @ - 1]
  /\ barrierOpen' = [barrierOpen EXCEPT ![b] = FALSE]
  /\ UNCHANGED <<openReqs, actionLoading>>
  /\ UNCHANGED <<connVars, listVars, viewVars, sendVars, shown, pagVars>>

BarrierIdle ==
  /\ barrierOpen = [b \in Barriers |-> FALSE]
  /\ closeTimers = [b \in Barriers |-> 0]
  /\ openReqs = [b \in Barriers |-> 0]
  /\ actionLoading = "none"

\* ------------------------------------------------- specifications
ListIdle ==
  /\ feed = "recent"
  /\ pageSize = PageSize
  /\ view = <<>>
  /\ db = <<>>
  /\ nNew = 0
  /\ inflight = <<>>
  /\ pushq = <<>>
  /\ lastPush = [i \in Ids |-> NoEnt]
  /\ lastOp = [kind |-> "mount", env |-> NoEnt, got |-> {}, stale |-> FALSE]
  /\ loading = FALSE
  /\ notice = "none"

ConnIdle ==
  /\ sockState = [k \in Sockets |-> "NONE"]
  /\ nSock = 0
  /\ ws = 0
  /\ reconnectTimer = FALSE
  /\ nTimers = 0
  /\ isIntentionallyClosed = FALSE
  /\ callbacks = <<>>
  /\ providerMounted = FALSE
  /\ ctorThrows = FALSE
  /\ intent = "none"
  /\ resumed = FALSE
  /\ nSent = 0
  /\ nDropped = 0
  /\ unsubCalls = [s \in Subscribers |-> 0]
  /\ handles = [s \in Subscribers |-> 0]
  /\ lastPass = NoPass
  /\ due = [s \in Subscribers |-> <<>>]
  /\ seen = [s \in Subscribers |-> <<>>]

\* the service connected and open, no subscriber yet: connect() and ws.onopen
\* have run, for each socket connect() created
DispatchInit ==
  /\ \E n \in 1..MaxSockets :
       /\ nSock = n
       /\ ws = n
       /\ sockState = [k \in Sockets |-> IF k <= n THEN "OPEN" ELSE "NONE"]
  /\ reconnectTimer = FALSE
  /\ nTimers = 0
  /\ isIntentionallyClosed = FALSE
  /\ callbacks = <<>>
  /\ providerMounted = FALSE
  /\ ctorThrows = FALSE
  /\ intent = "online"
  /\ resumed = FALSE
  /\ nSent = 0
  /\ nDropped = 0
  /\ unsubCalls = [s \in Subscribers |-> 0]
  /\ handles = [s \in Subscribers |-> 0]
  /\ lastPass = NoPass
  /\ due = [s \in Subscribers |-> <<>>]
  /\ seen = [s \in Subscribers |-> <<>>]

Init == ConnInit /\ ListIdle /\ ViewIdle /\ SendIdle /\ ProviderIdle /\ PagInit /\ BarrierIdle

Next ==
  \/ Connect
  \/ Disconnect
  \/ TimerFire
  \/ \E k \in Sockets : SockOpen(k)
  \/ \E k \in Sockets : SockClose(k)
  \/ \E s \in Subscribers : Subscribe(s)
  \/ \E s \in Subscribers : Unsubscribe(s)
  \/ FrameArrives
  \/ ProviderMount
  \/ ProviderUnmount

Spec == Init /\ [][Next]_vars

InitList == ConnIdle /\ ListInit /\ mountedViews = {ListOwner} /\ SendIdle /\ ProviderIdle /\ PagInit /\ BarrierIdle

NextList ==
  \/ FetchStart
  \/ \E r \in 1..MaxInflight : ServerRespond(r)
  \/ \E r \in 1..MaxInflight : FetchApply(r)
  \/ \E r \in 1..MaxInflight : FetchFail(r)
  \/ ServerEvent
  \/ \E i \in Ids : ServerUpdate(i)
  \/ DeliverPush
  \/ Redeliver
  \/ ListUnmount

SpecList == InitList /\ [][NextList]_vars

\* the ActiveSessions card: every envelope starts a fetch, so several are in
\* flight at once
InitActive ==
  /\ ConnIdle /\ ListMounted("active") /\ mountedViews = {ListOwner}
  /\ SendIdle /\ ProviderIdle /\ PagInit /\ BarrierIdle

NextActive ==
  \/ \E r \in 1..(MaxOps + 1) : ServerRespond(r)
  \/ \E r \in 1..(MaxOps + 1) : FetchApply(r)
  \/ \E r \in 1..(MaxOps + 1) : FetchFail(r)
  \/ ServerEvent
  \/ \E i \in Ids : ServerUpdate(i)
  \/ DeliverPush
  \/ ListUnmount

SpecActive == InitActive /\ [][NextActive]_vars

\* the subscriber registry and the dispatch of frames on an open connection
InitDispatch == DispatchInit /\ ListIdle /\ ViewIdle /\ SendIdle /\ ProviderIdle /\ PagInit /\ BarrierIdle

NextDispatch ==
  \/ \E s \in Subscribers : Subscribe(s)
  \/ \E s \in Subscribers : Unsubscribe(s)
  \/ FrameArrives

SpecDispatch == InitDispatch /\ [][NextDispatch]_vars

\* the application: the provider, the socket, and the views that subscribe
NextViews ==
  \/ ProviderMount
  \/ AppUnmount
  \/ TimerFire
  \/ \E k \in Sockets : SockOpen(k)
  \/ \E k \in Sockets : SockClose(k)
  \/ \E p \in Pages : Navigate(p)
  \/ DashboardLoaded
  \/ DashboardFrame
  \/ EventsPageSize

SpecViews == Init /\ [][NextViews]_vars

\* the connection alone: the service's public API, its socket events and its
\* reconnect timer
NextConn ==
  \/ Connect
  \/ Disconnect
  \/ TimerFire
  \/ \E k \in Sockets : SockOpen(k)
  \/ \E k \in Sockets : SockClose(k)
  \/ ProviderMount
  \/ ProviderUnmount
  \/ Send

SpecConn == Init /\ [][NextConn]_vars

\* the pagination hook on its own
NextPagination ==
  \/ Render
  \/ \E p \in 0..(MaxItems + 1) : setPage(p)
  \/ nextPage
  \/ previousPage
  \/ goToFirstPage
  \/ goToLastPage
  \/ \E size \in {PageSize, PageSize + 1} : handlePageSizeChange(size)
  \/ \E n \in 0..MaxItems : TotalItemsChange(n)

SpecPagination == Init /\ [][NextPagination]_vars

\* the barrier buttons of the dashboard
NextBarrier ==
  \/ \E b \in Barriers : ClickOpen(b)
  \/ \E b \in Barriers : OpenSucceeds(b)
  \/ \E b \in Barriers : OpenFails(b)
  \/ \E b \in Barriers : AutoClose(b)

SpecBarrier == Init /\ [][NextBarrier]_vars

\* the registry with callback functions that are subscribed more than once
NextRegistry ==
  \/ \E s \in Subscribers : Subscribe(s)
  \/ \E s \in Subscribers : Resubscribe(s)
  \/ \E s \in Subscribers : Unsubscribe(s)
  \/ FrameArrives

SpecRegistry == InitDispatch /\ [][NextRegistry]_vars

\* the provider over the connection; the interval keeps firing every second
NextProvider ==
  \/ ProviderMount
  \/ ProviderUnmount
  \/ Poll
  \/ Connect
  \/ Disconnect
  \/ TimerFire
  \/ \E k \in Sockets : SockOpen(k)
  \/ \E k \in Sockets : SockClose(k)

SpecProvider == Init /\ [][NextProvider]_vars /\ WF_vars(Poll)

\* ------------------------------------------------- claims, connection
LiveSockets == {k \in 1..nSock : sockState[k] \in {"CONNECTING", "OPEN"}}

\* C1: connect() creates no socket while one is open or opening, so at most
\* one underlying socket (open or opening) exists at any time.
C1_AtMostOneSocket == Cardinality(LiveSockets) <= 1

\* C2: a subscriber that stays registered has seen exactly the well-formed
\* frames the backend sent while a connection was open since it registered:
\* each once, in the order sent.
C2_ExactlyOnceInOrder ==
  \A s \in Range(callbacks) : seen[s] = due[s]

\* C3: delivery is isolated per subscriber: every registered subscriber has
\* received every well-formed frame sent since it registered, whichever
\* callbacks raised while handling them.
C3_DeliveryIsolated ==
  \A s \in Range(callbacks) : Range(due[s]) \subseteq Range(seen[s])

\* C11: after disconnect() and until connect() is called again the connection
\* is Disconnected: no reconnect timer is pending and no socket is open or
\* opening.
C11_StaysDisconnected ==
  intent = "offline" => ~reconnectTimer /\ LiveSockets = {}

\* C12: when the socket of the connection closes (after an error or not) and
\* the caller's last request was connect(), a reconnect is scheduled; when the
\* delay elapses a connect attempt is made.
C12_CloseSchedulesReconnect ==
  [][/\ (\E k \in Sockets : SockClose(k) /\ k = ws /\ intent = "online")
          => reconnectTimer'
     /\ TimerFire => (connectReturnsEarly \/ ctorThrows \/ nSock' = nSock + 1)]_vars

\* C13: the client never gets stuck offline: whenever the caller's last
\* request was connect() and no socket is open, a socket is opening or a
\* reconnect timer is pending.
C13_NeverStuckOffline ==
  (intent = "online" /\ OpenSockets = {}) =>
    \/ \E k \in 1..nSock : sockState[k] = "CONNECTING"
    \/ reconnectTimer

\* a connection dropped and a later one is open
Reconnected ==
  \E j, k \in 1..nSock : j < k /\ sockState[j] = "CLOSED" /\ sockState[k] = "OPEN"

\* C14: after a drop and a reconnect, every subscriber that is still registered
\* receives each well-formed frame the backend sends, without re-subscribing.
C14_DeliveredAfterReconnect ==
  [][(FrameArrives /\ Reconnected) =>
       \A s \in Range(callbacks') :
         due'[s] # due[s] => Len(seen'[s]) > Len(seen[s])]_vars

\* the callbacks of order that come after a
After(order, a) ==
  {order[i] : i \in {j \in 1..Len(order) : \E k \in 1..(j - 1) : order[k] = a}}

C15_HandleCalledTwice ==
  \E s \in Subscribers : unsubCalls[s] = MaxHandleCalls /\ s \notin Range(callbacks)

\* C16: unsubscribing is immediate and total: a subscriber whose handle has
\* been called has received nothing since, the frame being dispatched
\* included when the pass had not reached it yet.
C16_NothingAfterUnsubscribe ==
  \A s \in Subscribers : s \notin Range(callbacks) => seen[s] = <<>>

\* C16, witness: in the pass of the last step callback a received the frame
\* and called the handle of a subscriber the pass had not reached yet; that
\* subscriber is gone and received nothing.
C16_UnsubscribedBeforeReached ==
  /\ lastPass.a # 0 /\ lastPass.a \notin lastPass.T
  /\ seen[lastPass.a] # <<>>
  /\ \E t \in After(lastPass.before, lastPass.a) \cap lastPass.T :
       t \notin Range(callbacks) /\ seen[t] = <<>>

\* C17: the registry holds exactly one callback for each mounted subscribing
\* view, none when no view is mounted.
C17_NoLeakedCallback ==
  /\ Range(callbacks) = mountedViews
  /\ Len(callbacks) = Cardinality(mountedViews)

\* C17, witness: the Events page was shown, its effect ran again on a page
\* size change, and it has unmounted since: Dashboard and its two children are
\* mounted and the registry holds their three callbacks.
C17_EventsLeftDashboardShown ==
  /\ pageSize # PageSize
  /\ mountedViews = {"Dashboard"} \cup DashboardChildren
  /\ callbacks = <<"RecentEvents", "ActiveSessions", "Dashboard">>

\* C19: a frame that does not parse is dropped: no subscriber receives
\* anything for it and the connection and the registry are left as they were;
\* every well-formed frame sent after it still reaches every registered
\* subscriber.
C19_MalformedDropped ==
  [][/\ Frame(FALSE, {}, 0, {}) =>
          UNCHANGED <<seen, callbacks, sockState, ws, reconnectTimer, nTimers,
                      isIntentionallyClosed>>
     /\ (nDropped > 0 /\ nSent' = nSent + 1 /\ nDropped' = nDropped) =>
          \A s \in Range(callbacks') : Len(seen'[s]) > Len(seen[s])]_vars

\* C20: send(message) is best-effort: when isConnected() is false it hands
\* nothing to the socket and raises nothing; when isConnected() is true it
\* hands the message to the socket once.  Either way it leaves the sockets,
\* the reconnect timer, the intentional-close flag and the registry alone.
C20_SendBestEffort ==
  [][Send =>
       /\ IF isConnected
          THEN nTx' = nTx + 1 /\ lastSend' = "sent"
          ELSE nTx' = nTx /\ lastSend' = "logged"
       /\ UNCHANGED <<sockState, nSock, ws, reconnectTimer, nTimers, isIntentionallyClosed,
                      callbacks>>]_vars

\* C20, witness: one message was transmitted while connected, and a later
\* send(), called while the next socket was still opening, transmitted nothing.
C20_SentWhileConnecting ==
  /\ lastSend = "logged" /\ nTx = 1
  /\ ws # 0 /\ sockState[ws] = "CONNECTING"

\* C22: when a socket opens the connection is connected and no reconnect
\* timer is pending; no reconnect timer is pending in any state in which the
\* connection is connected.
C22_OpenMeansConnected ==
  [][/\ (\E k \in Sockets : SockOpen(k)) => (isConnected' /\ ~reconnectTimer')
     /\ isConnected' => ~reconnectTimer']_vars

\* C23: while the provider stays mounted and isConnected() stays at one value,
\* the exposed boolean eventually equals it and stays so; no step that leaves
\* the provider unmounted writes the exposed boolean.
C23_ShownTracksConnection ==
  /\ <>[](providerMounted /\ isConnected) => <>[]shown
  /\ <>[](providerMounted /\ ~isConnected) => <>[]~shown
  /\ [][~providerMounted' => shown' = shown]_vars

\* C23, witness: the provider shows live while the socket has already closed
\* (the next tick of the interval will correct it).
C23_ShownLagsBehind == providerMounted /\ shown /\ ~isConnected

\* C24: once connect() has been called after a disconnect(), the close of the
\* current socket, before or after it opened, schedules a reconnect.
C24_ReconnectsAfterResume ==
  [][(\E k \in Sockets : SockClose(k) /\ k = ws /\ resumed /\ intent = "online")
       => reconnectTimer']_vars

\* C25: at most one reconnect timer is pending, it is the one the service
\* holds in this.reconnectTimer, and a timer that fires starts at most one
\* connect attempt.
C25_OneReconnectTimer ==
  [][/\ nTimers' <= 1
     /\ reconnectTimer' <=> nTimers' = 1
     /\ TimerFire => nSock' <= nSock + 1]_vars

\* C25, witness: two sockets are closed, the caller wants to be online, and
\* one timer is pending: the second close found the timer of the first.
C25_SecondCloseFoundTimer ==
  /\ Cardinality({k \in Sockets : sockState[k] = "CLOSED"}) >= 2
  /\ LiveSockets = {}
  /\ ~isIntentionallyClosed
  /\ nTimers = 1

\* C26: the close event of a socket that is not the current socket leaves the
\* connection as it is: the reference to the current socket, isConnected()
\* and the reconnect timer do not change.
C26_StaleCloseIgnored ==
  [][\A k \in Sockets :
       (SockClose(k) /\ ws # 0 /\ k # ws)
         => /\ ws' = ws
            /\ isConnected' = isConnected
            /\ reconnectTimer' = reconnectTimer]_vars

\* C27: every subscribe() call is a registration of its own: while a handle
\* returned for a callback has not been called, the callback is registered
\* (and so keeps receiving envelopes).
C27_IndependentRegistrations ==
  \A s \in Subscribers : handles[s] > 0 => s \in Range(callbacks)

\* ------------------------------------------------- claims, reconciled lists
\* C4: once a snapshot has been applied, every entity pushed while that
\* fetch was in flight is still in the view (unless the view is full).
C4_PushSurvivesFetch ==
  lastOp.kind = "fetch" =>
    \A i \in lastOp.got : i \in IdsOf(view) \/ Len(view) >= Cap

\* C5: no two entries of the view share an identity.
C5_NoDuplicateIdentity ==
  \A i, j \in 1..Len(view) : i # j => view[i].id # view[j].id

C7_OrderedByKey ==
  \A i, j \in 1..Len(view) : i < j => view[i].ts >= view[j].ts

\* C8: a push of a new identity into a full, duplicate-free list removes a
\* candidate whose ordering key is the oldest of the N+1 candidates.
C8_EvictsOldest ==
  [][(/\ DeliverPush
      /\ Len(view) = Cap
      /\ C5_NoDuplicateIdentity
      /\ Head(pushq).id \notin IdsOf(view))
     => LET cands   == Range(view) \cup {Head(pushq)}
            removed == cands \ Range(view')
        IN \A r \in removed : \A c \in cands : r.ts <= c.ts]_vars

\* C9: every entry whose identity has been pushed carries fields at least as
\* recent as the last envelope delivered for that identity.
C9_FieldsOfLatestPush ==
  \A i \in 1..Len(view) :
    lastPush[view[i].id] # NoEnt => view[i].ver >= lastPush[view[i].id].ver

\* C10: delivering again the envelope that was just delivered leaves the view
\* as it is.
C10_RedeliveryIdempotent == [][Redeliver => view' = view]_vars

\* C21: when a snapshot fetch fails the owning view is no longer loading and
\* shows the failure (a retryable error state), whatever the push connection
\* does; pushes are still applied afterwards.
C21_FetchFailureShown ==
  [][\A r \in 1..Len(inflight) :
       FetchFail(r) => ~loading' /\ notice' = "error"]_vars

\* C28: once every snapshot fetch in flight has completed, the list shows the
\* result of the most recently issued fetch among those applied, not the
\* result of a fetch issued before one that was applied earlier.
C28_LatestFetchWins ==
  (inflight = <<>> /\ lastOp.kind = "fetch") => ~lastOp.stale

\* C29: the page of the pagination hook stays within 1..totalPages, with
\* totalPages = max(1, ceil(totalItems / pageSize)).
C29_PageWithinRange ==
  /\ 1 <= currentPage
  /\ currentPage <= totalPages(totalItems, pageSize)

\* C30: while an auto-close timer of a barrier is pending (the one of the most
\* recent successful open fires last), the barrier's indicator shows open.
C30_OpenForFullDelay ==
  \A b \in Barriers : closeTimers[b] > 0 => barrierOpen[b]

====
